---- MODULE Spec2Model ----
(***************************************************************************)
(* Model of the tegdb test-refactoring scripts:                            *)
(*   refactor_tests_for_wasm.py            (the "wasm" program)            *)
(*   refactor_platform_specific_tests.py   (the "plat" program)            *)
(*                                                                         *)
(*   identify_platform_specific_tests.py   (the "ident" program)           *)
(*                                                                         *)
(* A text (file content, function body, line) is a sequence of tokens.     *)
(* A token is an opening brace, a closing brace, a newline, a double quote *)
(* whose partner is another token, the opener of a comment whose text is   *)
(* made of further tokens, or a lexeme: a run of characters that holds no  *)
(* brace and no newline, whose quotes are paired, and that the scripts     *)
(* only ever test by substring search.  Blanks are not modelled: every     *)
(* test the scripts make on a line is made after strip().                  *)
(*                                                                         *)
(* Offsets into a text are token offsets.  They agree with the character   *)
(* offsets of the scripts wherever a slice starts or ends at a brace, a    *)
(* newline or a match boundary, which is every slice the scripts make      *)
(* while the offsets they saved are still those of the working text.       *)
(* Once a splice has moved the text under a saved offset (spans that       *)
(* overlap), the script cuts at a stale character offset that may fall     *)
(* inside a lexeme; the model cuts at the token boundary instead.          *)
(*                                                                         *)
(* refactor_platform_specific_tests.py, line 59, builds its pattern with   *)
(* an rf-string whose braces are not doubled; Python rejects the file with *)
(* a SyntaxError, so the script as shipped runs nothing.  The plat program *)
(* is modelled with the pattern that line spells out once the test name is *)
(* substituted, which is the pattern of the two sibling routines (lines    *)
(* 192 and 241) with the name fixed.                                       *)
(***************************************************************************)
EXTENDS Naturals, Integers, Sequences, FiniteSets, TLC

VARIABLES
    prog,             \* which script runs: "wasm" or "plat"
    fs,               \* the file system: path -> content, for the paths that exist
    unreadable,       \* paths whose open(path, 'r') raises
    unwritable,       \* paths whose open(path, 'w') / copy2 destination raises
    pc,               \* position of the running script
    run,              \* how many times main() was started
    fi,               \* wasm main: index into test_files
    content,          \* local: the text read from the file
    new_content,      \* local of refactor_test_file: the working text
    matches,          \* local of refactor_test_file: test_matches
    k,                \* local of refactor_test_file: index of the match in process
    modified,         \* local of refactor_test_file
    total_refactored, \* local of main
    test_body,        \* local of refactor_transaction_tests
    new_body,         \* local of refactor_transaction_tests
    new_function,     \* local of refactor_transaction_tests
    fs0,              \* history: the file system before the first run
    fsAtRunStart,     \* history: the file system when the current run started
    platform_specific, \* local of scan_test_files
    backend_agnostic,  \* local of scan_test_files
    mixed              \* local of scan_test_files

vars == <<prog, fs, unreadable, unwritable, pc, run, fi, content, new_content,
          matches, k, modified, total_refactored, test_body, new_body,
          new_function, fs0, fsAtRunStart,
          platform_specific, backend_agnostic, mixed>>

\* the three lists scan_test_files builds
identVars == <<platform_specific, backend_agnostic, mixed>>

----------------------------------------------------------------------------
(* Bounds *)

\* longest function body enumerated exhaustively over BodyAlphabet
MaxBody == 2
\* how many times the operator starts main()
MaxRuns == 2

----------------------------------------------------------------------------
(* Tokens *)

LB == "{"
RB == "}"
NL == "\n"
QT == "\""
CM == "//"

\* names of the functions that occur in the modelled inputs
FnNames ==
    {"test_insert", "test_select", "create_test_db",
     "test_transaction_commit", "test_transaction_rollback", "test_marker_recovery"}

PLATFORM_SPECIFIC_TESTS ==
    {"test_absolute_path_requirement", "temp_db_path", "remove_file_if_file_backend",
     "create_test_db", "setup_test_table", "measure_sql_execution",
     "measure_transaction_sql_execution", "run_comprehensive_performance_suite"}

PLATFORM_SPECIFIC_FILES ==
    {"engine_tests.rs", "high_level_api_performance_test.rs",
     "schema_performance_test.rs", "wasm_tests.rs", "test_helpers.rs"}

\* "#[test]\nfn <name>() -> Result<()> ": what test_pattern matches before the brace
TestHeader(n) == "#[test]\nfn " \o n \o "() -> Result<()> "
\* the second return type test_pattern of refactor_tests_for_wasm.py accepts
TestHeaderErr(n) == "#[test]\nfn " \o n \o "() -> Result<(), tegdb::Error> "

\* the opening of a harness call, up to its closure's brace
RwbCall(n) == "run_with_both_backends(\"" \o n \o "\", |db_path| "
\* the parenthesis that closes a harness call, after its closure's brace
CloseCall == ")"
OkLine == "Ok(())"
DbStmt == "db.execute(sql)?;"
PlainStmt == "let x = 1;"
UseStmt == "use tegdb::Database;"
UseRwb == "use test_helpers::run_with_both_backends;"

\* 'use tegdb::{Result, SqlValue};', the line the plat program adds its import after
UseAnchor == <<"use tegdb::", LB, "Result, SqlValue", RB, ";">>
UseFs == "use std::fs;"
UsePathBuf == "use std::path::PathBuf;"
TempDbPathHeader == "fn temp_db_path(name: &str) -> PathBuf "
TempDbPathBody == "std::env::temp_dir().join(name)"

\* lines of the low-level tests
LetPath == "let path = temp_db_path(name);"
FsRemove == "fs::remove_file(&path).ok();"
IfPathExists == "if path.exists() "
\* "<prefix>StorageEngine::new(path.clone())?;" and what
\* str.replace('StorageEngine::new', 'Database::open') makes of it
LetNew(prefix) == prefix \o "StorageEngine::new" \o "(path.clone())?;"
LetOpen(prefix) == prefix \o "Database::open" \o "(path.clone())?;"
LetPrefixes ==
    {"let mut engine = ", "let engine = ", "let engine1 = ", "let engine2 = ",
     "let engine2_result = ", "let _engine3 = ", "let mut engine2 = ",
     "let mut storage = "}
LetMutEngineNew == LetNew("let mut engine = ")
LetEngineNew == LetNew("let engine = ")
LetEngine1New == LetNew("let engine1 = ")
LetEngine2New == LetNew("let engine2 = ")
LetEngine2ResultNew == LetNew("let engine2_result = ")
LetEngine3New == LetNew("let _engine3 = ")
LetMutEngine2New == LetNew("let mut engine2 = ")
LetStorageNew == LetNew("let mut storage = ")
EngineSet == "engine.set(" \o "k, v)?;"
EngineGet == "let v = " \o "engine.get(" \o "k);"
AssertEngineGet == "assert_eq!(" \o "engine.get(" \o "k), None);"
EngineDelete == "engine.delete(k)?;"
BeginTx == "let mut tx = engine.begin_transaction();"
TxSet == "tx.set(k, v)?;"
TxGet == "let v = tx.get(k);"
TxDelete == "tx.delete(k)?;"
TxCommitUnwrap == "tx.commit().unwrap();"
TxRollbackUnwrap == "tx.rollback().unwrap();"
LetUnderscore == "let _ = "
StdFsRemove == "std::fs::remove_file(&path);"
LetSize == "let size = "
FsMetadataLen == "fs::metadata(&path).unwrap().len();"

\* lines convert_storage_engine_to_database writes
DbOpenLine == "let mut db = Database::open(db_path)?;"
DbBeginTx == "let mut tx = db.begin_transaction()?;"
TodoTxSet == "// TODO: Convert tx.set to SQL operation"
TodoTxGet == "// TODO: Convert tx.get to SQL query"
TodoTxDelete == "// TODO: Convert tx.delete to SQL DELETE"
TodoEngineGetAssert == "// TODO: Convert engine.get assertion to database query"
TxCommitLine == "tx.commit()?;"
TxRollbackLine == "tx.rollback()?;"

TodoLines == {TodoTxSet, TodoTxGet, TodoTxDelete, TodoEngineGetAssert}

\* 'StorageEngine::new' in tok
ContainsStorageEngineNew(tok) == \E prefix \in LetPrefixes : tok = LetNew(prefix)

\* what the str.replace calls of refactor_commit_marker_tests put for
\* 'engine.set(' and 'engine.get('
ExecuteCall == "db.execute(\"INSERT INTO test (key, value) VALUES (?, ?)\", "
QueryCall == "db.query(\"SELECT value FROM test WHERE key = ?\", "

\* 'run_with_both_backends(' in tok
ContainsRwbCall(tok) == \E n \in FnNames : tok = RwbCall(n)
\* any of 'database::open', 'db.execute', 'db.query' in tok.lower()
ContainsDbKeyword(tok) ==
    \/ tok \in {DbStmt, DbOpenLine, ExecuteCall \o "k, v)?;",
                "let v = " \o QueryCall \o "k);", "assert_eq!(" \o QueryCall \o "k), None);"}
    \/ \E prefix \in LetPrefixes : tok = LetOpen(prefix)
\* tok matches use\s+.*?;
IsUseStmt(tok) == tok \in {UseStmt, UseRwb, UseFs, UsePathBuf}
\* tok ends with a semicolon
EndsWithSemicolon(tok) ==
    tok \in {DbStmt, PlainStmt, UseStmt, UseRwb, UseFs, UsePathBuf, DbOpenLine}
\* tok.startswith('//')
StartsComment(tok) == tok = CM \/ tok \in TodoLines

----------------------------------------------------------------------------
(* Python's str operations on token sequences *)

Min(a, b) == IF a < b THEN a ELSE b
Max(a, b) == IF a > b THEN a ELSE b

\* s[:n]
Take(s, n) == SubSeq(s, 1, Min(n, Len(s)))
\* s[n:]
Drop(s, n) == SubSeq(s, Min(n, Len(s)) + 1, Len(s))

\* s.find(tok, from): the first position >= from holding tok, 0 when there is none
IndexOf(s, tok, from) ==
    IF \E i \in from..Len(s) : s[i] = tok
    THEN CHOOSE i \in from..Len(s) : s[i] = tok /\ \A j \in from..(i - 1) : s[j] # tok
    ELSE 0

\* s.split('\n')
RECURSIVE SplitLines(_)
SplitLines(s) ==
    LET i == IndexOf(s, NL, 1)
    IN IF i = 0 THEN <<s>>
       ELSE <<SubSeq(s, 1, i - 1)>> \o SplitLines(SubSeq(s, i + 1, Len(s)))

\* '\n'.join(lines)
RECURSIVE JoinLines(_)
JoinLines(lines) ==
    IF Len(lines) = 0 THEN <<>>
    ELSE IF Len(lines) = 1 THEN lines[1]
    ELSE lines[1] \o <<NL>> \o JoinLines(Tail(lines))

\* s.replace(old, new): every occurrence, leftmost first, not overlapping
RECURSIVE ReplaceAll(_, _, _)
ReplaceAll(s, old, new) ==
    IF Len(s) < Len(old) \/ old = <<>> THEN s
    ELSE IF SubSeq(s, 1, Len(old)) = old
         THEN new \o ReplaceAll(SubSeq(s, Len(old) + 1, Len(s)), old, new)
    ELSE <<Head(s)>> \o ReplaceAll(Tail(s), old, new)

----------------------------------------------------------------------------
(* refactor_tests_for_wasm.py *)

\* a test that exempts no name
NoTestIsPlatformSpecific(test_name) == FALSE

is_platform_specific_test(test_name) == test_name \in PLATFORM_SPECIFIC_TESTS

is_platform_specific_file(filename) == filename \in PLATFORM_SPECIFIC_FILES

\* the headers test_pattern of refactor_tests_for_wasm.py matches
WasmHeaders == {TestHeader(n) : n \in FnNames} \cup {TestHeaderErr(n) : n \in FnNames}
\* group(1) of a header
HeaderName(tok) == CHOOSE n \in FnNames : tok \in {TestHeader(n), TestHeaderErr(n)}

\* the position after the run of newlines (\s*) that starts at i
RECURSIVE SkipNewlines(_, _)
SkipNewlines(text, i) ==
    IF i <= Len(text) /\ text[i] = NL THEN SkipNewlines(text, i + 1) ELSE i

\* test_pattern tried at position i: the header, \s*, the brace, ([^}]+), the
\* first closing brace.  ok is FALSE when the pattern does not match there.
TestMatchAt(text, i, headers) ==
    LET b == SkipNewlines(text, i + 1)
        e == IndexOf(text, RB, b + 1)
    IN IF text[i] \in headers /\ b <= Len(text) /\ text[b] = LB /\ e > b + 1
       THEN [ok |-> TRUE, start |-> i, brace |-> b, end |-> e,
             name |-> HeaderName(text[i]), body |-> SubSeq(text, b + 1, e - 1)]
       ELSE [ok |-> FALSE, start |-> i, brace |-> 0, end |-> 0,
             name |-> "", body |-> <<>>]

\* list(re.finditer(test_pattern, content, re.DOTALL)): leftmost matches that
\* do not overlap, in file order
RECURSIVE FindTestsFrom(_, _, _)
FindTestsFrom(text, i, headers) ==
    IF i > Len(text) THEN <<>>
    ELSE LET m == TestMatchAt(text, i, headers)
         IN IF m.ok THEN <<m>> \o FindTestsFrom(text, m.end + 1, headers)
            ELSE FindTestsFrom(text, i + 1, headers)

WasmTestMatches(text) == FindTestsFrom(text, 1, WasmHeaders)

extract_test_function_info(m) ==
    [name |-> m.name,
     body |-> m.body,
     already_uses_rwb |-> \E i \in 1..Len(m.body) : ContainsRwbCall(m.body[i]),
     is_simple_test |-> ~ \E i \in 1..Len(m.body) : ContainsDbKeyword(m.body[i])]

\* a line refactor_test_function keeps: not empty and not a comment
IsTestLogicLine(line) == line # <<>> /\ ~ StartsComment(line[1])

\* the loop over lines: test_lines
RECURSIVE TestLogicLines(_)
TestLogicLines(lines) ==
    IF lines = <<>> THEN <<>>
    ELSE (IF IsTestLogicLine(Head(lines)) THEN <<Head(lines)>> ELSE <<>>)
         \o TestLogicLines(Tail(lines))

\* None is the empty sequence: the caller tests the result for truth
refactor_test_function(test_info) ==
    LET test_lines == TestLogicLines(SplitLines(test_info.body))
    IN IF test_info.already_uses_rwb \/ test_info.is_simple_test \/ test_lines = <<>>
       THEN <<>>
       ELSE <<RwbCall(test_info.name), LB, NL>> \o JoinLines(test_lines)
            \o <<NL, OkLine, NL, RB, CloseCall>>

\* the brace scan: the position of the closing brace at which the count is
\* back to zero, 0 when the text ends first
RECURSIVE ScanBraces(_, _, _)
ScanBraces(text, i, brace_count) ==
    IF i > Len(text) THEN 0
    ELSE IF text[i] = LB THEN ScanBraces(text, i + 1, brace_count + 1)
    ELSE IF text[i] = RB
         THEN IF brace_count - 1 = 0 THEN i ELSE ScanBraces(text, i + 1, brace_count - 1)
    ELSE ScanBraces(text, i + 1, brace_count)

\* brace_end as a number of leading tokens: brace_end stays brace_start (the
\* text before the opening brace) when the scan finds no end
BraceEnd(text, brace_start) ==
    LET e == ScanBraces(text, brace_start, 0)
    IN IF e = 0 THEN brace_start - 1 ELSE e

\* new_content[:brace_start + 1] + '\n' + refactored_body + '\n' + new_content[brace_end:]
ReplaceBody(text, brace_start, brace_end, refactored_body) ==
    Take(text, brace_start) \o <<NL>> \o refactored_body \o <<NL>> \o Drop(text, brace_end)

\* whether the loop body rewrites match m
WillRefactor(m) ==
    LET test_info == extract_test_function_info(m)
    IN /\ ~ is_platform_specific_test(test_info.name)
       /\ ~ test_info.already_uses_rwb
       /\ ~ test_info.is_simple_test
       /\ refactor_test_function(test_info) # <<>>

\* one iteration of the loop over reversed(test_matches)
RefactorMatch(text, working, m) ==
    IF WillRefactor(m) /\ IndexOf(text, LB, m.start) # 0
    THEN LET brace_start == IndexOf(text, LB, m.start)
         IN ReplaceBody(working, brace_start, BraceEnd(text, brace_start),
                        refactor_test_function(extract_test_function_info(m)))
    ELSE working

\* the ends of the matches of use_pattern: a use statement, the rest of its
\* line up to a semicolon, and the run of newlines after it
UseMatchEnds(text) ==
    {SkipNewlines(text, j + 1) - 1 : j \in
        {j \in 1..(Len(text) - 1) :
            /\ EndsWithSemicolon(text[j])
            /\ text[j + 1] = NL
            /\ \E i \in 1..j : /\ IsUseStmt(text[i])
                               /\ \A h \in i..j : text[h] # NL}}

SetMax(S) == CHOOSE x \in S : \A y \in S : y <= x

AddImport(text) ==
    IF UseMatchEnds(text) # {}
    THEN LET insert_pos == SetMax(UseMatchEnds(text))
         IN Take(text, insert_pos) \o <<NL, UseRwb, NL>> \o Drop(text, insert_pos)
    ELSE <<UseRwb, NL, NL>> \o text

needs_test_helpers_import(text) == ~ \E i \in 1..Len(text) : text[i] = UseRwb

\* a commit that makes no backup
CopyFileSkipped(fsys, src, dst) == fsys

\* shutil.copy2(src, dst)
CopyFile(fsys, src, dst) ==
    [p \in DOMAIN fsys \cup {dst} |-> IF p = dst THEN fsys[src] ELSE fsys[p]]

\* with open(path, 'w') as f: f.write(text)
WriteFile(fsys, path, text) ==
    [p \in DOMAIN fsys \cup {path} |-> IF p = path THEN text ELSE fsys[p]]

BackupPath(filepath) == filepath \o ".backup"

----------------------------------------------------------------------------
(* refactor_platform_specific_tests.py *)

TransactionTestsPath == "tests/transaction_tests.rs"
CommitMarkerTestsPath == "tests/commit_marker_tests.rs"
ReadOnlyTestPath == "tests/read_only_transaction_test.rs"

\* the file each of the three routines main calls works on, in call order
PlatFiles == <<TransactionTestsPath, CommitMarkerTestsPath, ReadOnlyTestPath>>

test_functions ==
    <<"test_transaction_commit", "test_transaction_rollback",
      "test_transaction_empty_commit", "test_transaction_empty_rollback",
      "test_transaction_snapshot_isolation", "test_sequential_transactions",
      "test_double_commit_fails", "test_commit_after_rollback_fails",
      "test_delete_then_set_in_transaction", "test_durability_after_commit",
      "test_large_transaction_memory_usage", "test_transaction_get_behaviour",
      "test_transaction_scan_behaviour", "test_implicit_rollback_on_drop",
      "test_transaction_snapshot_after_rollback",
      "test_transaction_error_propagation_in_transaction",
      "test_pure_transaction_crash_recovery">>

\* "# Add imports"
AddPlatImport(text) ==
    IF needs_test_helpers_import(text)
    THEN ReplaceAll(text, UseAnchor, UseAnchor \o <<NL, UseRwb>>)
    ELSE text

\* re.sub(r'fn temp_db_path\([^)]*\)[^{]*\{[^}]*\}', '', content)
RECURSIVE RemoveTempDbPath(_)
RemoveTempDbPath(text) ==
    IF text = <<>> THEN <<>>
    ELSE LET b == IndexOf(text, LB, 2)
             e == IF b = 0 THEN 0 ELSE IndexOf(text, RB, b + 1)
         IN IF Head(text) = TempDbPathHeader /\ e # 0
            THEN RemoveTempDbPath(SubSeq(text, e + 1, Len(text)))
            ELSE <<Head(text)>> \o RemoveTempDbPath(Tail(text))

\* the lexemes that hold one of skip_lines
SkipLineTokens ==
    {LetPath, FsRemove, StdFsRemove, IfPathExists, LetMutEngineNew, LetEngineNew,
     LetEngine2New, LetEngine2ResultNew, LetEngine3New, LetEngine1New}

\* the lexemes that hold 'engine.set(', 'engine.get(', ...
EngineSetTokens == {EngineSet}
EngineGetTokens == {EngineGet, AssertEngineGet}
EngineDeleteTokens == {EngineDelete}
BeginTransactionTokens == {BeginTx}
TxSetTokens == {TxSet}
TxGetTokens == {TxGet}
TxDeleteTokens == {TxDelete}
TxCommitTokens == {TxCommitUnwrap, TxCommitLine}
TxRollbackTokens == {TxRollbackUnwrap, TxRollbackLine}
AssertEqTokens == {AssertEngineGet}

\* pattern in stripped, for the lexemes that hold the pattern
LineHas(line, tokens) == \E i \in 1..Len(line) : line[i] \in tokens

\* the body of the loop over lines: the lines appended to new_lines for one line
ConvertLine(line) ==
    IF LineHas(line, SkipLineTokens) THEN <<>>
    ELSE IF LineHas(line, EngineSetTokens) THEN <<>>
    ELSE IF LineHas(line, EngineGetTokens) THEN <<>>
    ELSE IF LineHas(line, EngineDeleteTokens) THEN <<>>
    ELSE IF LineHas(line, BeginTransactionTokens) THEN << <<DbOpenLine>>, <<DbBeginTx>> >>
    ELSE IF LineHas(line, TxSetTokens) THEN << <<TodoTxSet>> >>
    ELSE IF LineHas(line, TxGetTokens) THEN << <<TodoTxGet>> >>
    ELSE IF LineHas(line, TxDeleteTokens) THEN << <<TodoTxDelete>> >>
    ELSE IF LineHas(line, TxCommitTokens) THEN << <<TxCommitLine>> >>
    ELSE IF LineHas(line, TxRollbackTokens) THEN << <<TxRollbackLine>> >>
    ELSE IF LineHas(line, AssertEqTokens) /\ LineHas(line, EngineGetTokens)
         THEN << <<TodoEngineGetAssert>> >>
    ELSE <<line>>

RECURSIVE ConvertLines(_)
ConvertLines(lines) ==
    IF lines = <<>> THEN <<>>
    ELSE ConvertLine(Head(lines)) \o ConvertLines(Tail(lines))

convert_storage_engine_to_database(body, test_name) ==
    JoinLines(ConvertLines(SplitLines(body)))

\* the f-string the three routines build: the header, the harness call around
\* the body, the closing brace
WrapTest(test_name, body) ==
    <<TestHeader(test_name), LB, NL, RwbCall(test_name), LB, NL>> \o body
    \o <<NL, OkLine, NL, RB, CloseCall, NL, RB>>

\* re.search(pattern, content, re.DOTALL) for one name of test_functions
TransactionMatches(text, test_name) == FindTestsFrom(text, 1, {TestHeader(test_name)})

\* one iteration of: for test_name in test_functions
ConvertTest(text, test_name) ==
    LET found == TransactionMatches(text, test_name)
    IN IF found = <<>> THEN text
       ELSE ReplaceAll(text, SubSeq(text, found[1].start, found[1].end),
                       WrapTest(test_name,
                                convert_storage_engine_to_database(found[1].body, test_name)))

\* refactor_transaction_tests before its loop: the import, temp_db_path, the fs imports
TransactionPrepare(text) ==
    ReplaceAll(ReplaceAll(RemoveTempDbPath(AddPlatImport(text)), <<UseFs>>, <<>>),
               <<UsePathBuf>>, <<>>)

\* content.replace('StorageEngine::new', 'Database::open'), for a lexeme
ReplaceStorageEngineNew(tok) ==
    IF ContainsStorageEngineNew(tok)
    THEN LetOpen(CHOOSE prefix \in LetPrefixes : tok = LetNew(prefix))
    ELSE tok

\* content.replace('engine.set(', 'db.execute(...'), for a lexeme
ReplaceEngineSet(tok) == IF tok = EngineSet THEN ExecuteCall \o "k, v)?;" ELSE tok

\* content.replace('engine.get(', 'db.query(...'), for a lexeme
ReplaceEngineGet(tok) ==
    IF tok = EngineGet THEN "let v = " \o QueryCall \o "k);"
    ELSE IF tok = AssertEngineGet THEN "assert_eq!(" \o QueryCall \o "k), None);"
    ELSE tok

\* the headers test_pattern of the commit marker and read only routines matches
PlatHeaders == {TestHeader(n) : n \in FnNames}

\* re.sub(test_pattern, replace_test, content, flags=re.DOTALL)
RECURSIVE WrapAllFrom(_, _)
WrapAllFrom(text, i) ==
    IF i > Len(text) THEN <<>>
    ELSE LET m == TestMatchAt(text, i, PlatHeaders)
         IN IF m.ok THEN WrapTest(m.name, m.body) \o WrapAllFrom(text, m.end + 1)
            ELSE <<text[i]>> \o WrapAllFrom(text, i + 1)

\* refactor_commit_marker_tests, from the read to the content it writes
CommitMarkerContent(text) ==
    LET cleaned == ReplaceAll(AddPlatImport(text), <<StdFsRemove>>, <<>>)
        replaced == [i \in 1..Len(cleaned) |->
                        ReplaceEngineGet(ReplaceEngineSet(ReplaceStorageEngineNew(cleaned[i])))]
    IN WrapAllFrom(replaced, 1)

\* refactor_read_only_transaction_test, from the read to the content it writes
ReadOnlyContent(text) ==
    LET cleaned == ReplaceAll(ReplaceAll(AddPlatImport(text), <<StdFsRemove>>, <<>>),
                              <<FsMetadataLen>>, <<>>)
        replaced == [i \in 1..Len(cleaned) |-> ReplaceStorageEngineNew(cleaned[i])]
    IN WrapAllFrom(replaced, 1)

----------------------------------------------------------------------------
(* Inputs of the wasm program *)

WasmFileA == "tests/a_tests.rs"
WasmFileB == "tests/b_tests.rs"

\* glob.glob('tests/*.rs') without the platform-specific files
test_files == <<WasmFileA, WasmFileB>>

Fn(n, body) == <<TestHeader(n), LB>> \o body \o <<RB, NL>>

BodyAlphabet == {DbStmt, PlainStmt, LB, RB, NL, CM, QT, RwbCall("test_insert")}

SeqsUpTo(S, n) == UNION {[1..m -> S] : m \in 0..n}

\* bodies longer than MaxBody: nested blocks, a harness call after an inner
\* block, braces inside literals, comment and blank lines, a converted body
LongBodies ==
    {<<DbStmt, LB, RB, RwbCall("test_insert")>>,
     <<DbStmt, QT, RB, QT>>,
     <<DbStmt, CM, RB, NL>>,
     <<NL, DbStmt, NL, LB, PlainStmt, RB, NL, PlainStmt, NL>>,
     <<NL, CM, PlainStmt, NL, NL, DbStmt, NL>>,
     <<NL, RwbCall("test_insert"), LB, NL, DbStmt, NL, OkLine, NL, RB, CloseCall, NL>>}

Bodies == SeqsUpTo(BodyAlphabet, MaxBody) \cup LongBodies

SecondFns ==
    {<<>>,
     Fn("test_select", <<DbStmt>>),
     Fn("test_select", <<DbStmt, RB>>)}

\* one function with every body, alone or followed by a second function; and
\* files with imports, with an exempt name, with two functions to convert
RichFiles ==
    {Fn("test_insert", b) \o snd : b \in Bodies, snd \in SecondFns}
    \cup {pre \o Fn(n, <<NL, DbStmt, NL>>) \o snd :
            pre \in {<<UseStmt, NL>>, <<UseRwb, NL>>, <<UseStmt, PlainStmt, NL, NL>>},
            n \in {"test_insert", "create_test_db"},
            snd \in {<<>>, Fn("test_select", <<NL, DbStmt, NL>>)}}

PlainFiles ==
    {<<UseStmt, NL>> \o Fn("test_insert", <<NL, DbStmt, NL>>),
     Fn("test_insert", <<NL, PlainStmt, NL>>)}

FileBContent == <<TestHeaderErr("test_select"), NL, LB, NL, DbStmt, NL, RB, NL>>

WasmPaths == {WasmFileA, WasmFileB}

\* the backup an earlier run of the script has left of an older file A
EarlierBackup == Fn("test_insert", <<NL, PlainStmt, NL>>)

\* before main() runs: nothing is bound yet
InitLocals ==
    /\ run = 1
    /\ fi = 1
    /\ content = <<>>
    /\ new_content = <<>>
    /\ matches = <<>>
    /\ k = 0
    /\ modified = FALSE
    /\ total_refactored = 0
    /\ test_body = <<>>
    /\ new_body = <<>>
    /\ new_function = <<>>
    /\ fs0 = fs
    /\ fsAtRunStart = fs
    /\ platform_specific = <<>>
    /\ backend_agnostic = <<>>
    /\ mixed = <<>>

InitWasm ==
    /\ prog = "wasm"
    /\ \/ /\ \E a \in RichFiles :
               fs = [p \in WasmPaths |-> IF p = WasmFileA THEN a ELSE FileBContent]
          /\ unreadable = {}
          /\ unwritable = {}
       \/ /\ \E a \in PlainFiles, left \in SUBSET {BackupPath(WasmFileA)} :
               fs = [p \in WasmPaths \cup left |->
                        IF p = WasmFileA THEN a
                        ELSE IF p = WasmFileB THEN FileBContent ELSE EarlierBackup]
          /\ unreadable \in {{}, {WasmFileA}, {WasmFileB}}
          /\ unwritable \in {{}, {WasmFileA}, {BackupPath(WasmFileA)}}
    /\ pc = "w_main"
    /\ InitLocals

----------------------------------------------------------------------------
(* Actions of the wasm program *)

\* leaving refactor_test_file: its locals are gone
WasmReturn(result) ==
    /\ pc' = "w_main"
    /\ fi' = fi + 1
    /\ total_refactored' = IF result THEN total_refactored + 1 ELSE total_refactored
    /\ content' = <<>>
    /\ new_content' = <<>>
    /\ matches' = <<>>
    /\ k' = 0
    /\ modified' = FALSE

\* an uncaught exception ends the script
Crash ==
    /\ pc' = "crashed"
    /\ UNCHANGED <<prog, fs, unreadable, unwritable, run, fi, content, new_content,
                   matches, k, modified, total_refactored, test_body, new_body, new_function, fs0, fsAtRunStart>>

\* main's loop takes the next file; refactor_test_file reads it and finds the tests
W_Open ==
    /\ UNCHANGED identVars
    /\ prog = "wasm" /\ pc = "w_main" /\ fi <= Len(test_files)
    /\ LET filepath == test_files[fi]
       IN IF filepath \notin DOMAIN fs \/ filepath \in unreadable
          THEN Crash
          ELSE /\ UNCHANGED <<prog, fs, unreadable, unwritable, run, test_body,
                              new_body, new_function, fs0, fsAtRunStart>>
               /\ IF WasmTestMatches(fs[filepath]) = <<>>
                  THEN WasmReturn(FALSE)
                  ELSE /\ pc' = "w_loop"
                       /\ content' = fs[filepath]
                       /\ new_content' = fs[filepath]
                       /\ matches' = WasmTestMatches(fs[filepath])
                       /\ k' = Len(WasmTestMatches(fs[filepath]))
                       /\ modified' = FALSE
                       /\ UNCHANGED <<fi, total_refactored>>

\* one iteration of: for test_match in reversed(test_matches)
W_LoopStep ==
    /\ UNCHANGED identVars
    /\ prog = "wasm" /\ pc = "w_loop" /\ k >= 1
    /\ new_content' = RefactorMatch(content, new_content, matches[k])
    /\ modified' = (modified \/ (WillRefactor(matches[k])
                                 /\ IndexOf(content, LB, matches[k].start) # 0))
    /\ k' = k - 1
    /\ UNCHANGED <<prog, fs, unreadable, unwritable, pc, run, fi, content, matches,
                   total_refactored, test_body, new_body, new_function, fs0,
                   fsAtRunStart>>

\* after the loop: the import, then either the commit or return False
W_Import ==
    /\ UNCHANGED identVars
    /\ prog = "wasm" /\ pc = "w_loop" /\ k = 0
    /\ UNCHANGED <<prog, fs, unreadable, unwritable, run, test_body, new_body,
                   new_function, fs0, fsAtRunStart>>
    /\ IF modified
       THEN /\ new_content' = IF needs_test_helpers_import(content)
                              THEN AddImport(new_content) ELSE new_content
            /\ pc' = "w_backup"
            /\ UNCHANGED <<fi, content, matches, k, modified, total_refactored>>
       ELSE WasmReturn(FALSE)

\* shutil.copy2(filepath, backup_path)
W_Backup ==
    /\ UNCHANGED identVars
    /\ prog = "wasm" /\ pc = "w_backup"
    /\ LET filepath == test_files[fi]
       IN IF BackupPath(filepath) \in unwritable
          THEN Crash
          ELSE /\ fs' = CopyFile(fs, filepath, BackupPath(filepath))
               /\ pc' = "w_write"
               /\ UNCHANGED <<prog, unreadable, unwritable, run, fi, content,
                              new_content, matches, k, modified, total_refactored,
                              test_body, new_body, new_function, fs0, fsAtRunStart>>

\* with open(filepath, 'w') as f: f.write(new_content); return True
W_Write ==
    /\ UNCHANGED identVars
    /\ prog = "wasm" /\ pc = "w_write"
    /\ LET filepath == test_files[fi]
       IN IF filepath \in unwritable
          THEN Crash
          ELSE /\ fs' = WriteFile(fs, filepath, new_content)
               /\ WasmReturn(TRUE)
               /\ UNCHANGED <<prog, unreadable, unwritable, run, test_body, new_body,
                              new_function, fs0, fsAtRunStart>>

\* main's loop is over
W_Done ==
    /\ UNCHANGED identVars
    /\ prog = "wasm" /\ pc = "w_main" /\ fi > Len(test_files)
    /\ pc' = "done"
    /\ UNCHANGED <<prog, fs, unreadable, unwritable, run, fi, content, new_content,
                   matches, k, modified, total_refactored, test_body, new_body, new_function, fs0, fsAtRunStart>>

----------------------------------------------------------------------------
(* Inputs of the plat program *)

\* most lines enumerated in a body of the transaction tests
MaxLines == 2

TxLines ==
    {<<LetMutEngineNew>>, <<LetStorageNew>>, <<EngineSet>>, <<AssertEngineGet>>,
     <<BeginTx>>, <<TxSet>>, <<TxCommitUnwrap>>, <<PlainStmt>>,
     <<IfPathExists, LB, FsRemove, RB>>, <<>>}

BodyOfLines(lines) == <<NL>> \o JoinLines(lines) \o <<NL>>

\* a handle, a get, a set and a commit; and the lines TxLines leaves out
LongTxBodies ==
    {BodyOfLines(<< <<LetMutEngineNew>>, <<EngineGet>>, <<EngineSet>>, <<BeginTx>>,
                    <<TxCommitUnwrap>> >>),
     BodyOfLines(<< <<LetPath>>, <<LetEngineNew>>, <<LetEngine1New>>, <<LetEngine2New>>,
                    <<LetEngine2ResultNew>>, <<LetEngine3New>>, <<LetMutEngine2New>>,
                    <<EngineDelete>>, <<TxGet>>, <<TxDelete>>, <<TxRollbackUnwrap>> >>)}

TxBodies == {BodyOfLines(ls) : ls \in SeqsUpTo(TxLines, MaxLines)} \cup LongTxBodies

TxPrelude ==
    UseAnchor \o <<NL, UseFs, NL, UsePathBuf, NL, TempDbPathHeader, LB, TempDbPathBody,
                   RB, NL>>

RichTxFiles ==
    {TxPrelude \o Fn("test_transaction_commit", b) : b \in TxBodies}
    \cup {Fn("test_transaction_rollback", <<NL, BeginTx, NL, TxRollbackUnwrap, NL>>)
          \o Fn("test_transaction_commit", <<NL, LetMutEngineNew, NL, EngineSet, NL>>),
          UseAnchor \o <<NL, UseRwb, NL>>
          \o Fn("test_marker_recovery", <<NL, LetMutEngineNew, NL>>)}

PlainTxFiles ==
    {UseAnchor \o <<NL>>
     \o Fn("test_transaction_commit", <<NL, BeginTx, NL, TxSet, NL, TxCommitUnwrap, NL>>)}

CmFiles ==
    {UseAnchor \o <<NL>>
     \o Fn("test_marker_recovery",
           <<NL, LetUnderscore, StdFsRemove, NL, LetMutEngineNew, NL, EngineSet, NL,
             AssertEngineGet, NL>>),
     Fn("test_marker_recovery", <<NL, LetEngineNew, NL, EngineGet, NL>>)
     \o Fn("test_insert", <<NL, LB, PlainStmt, RB, NL>>)}

RoFiles ==
    {UseAnchor \o <<NL>>
     \o Fn("test_select",
           <<NL, LetEngineNew, NL, LetSize, FsMetadataLen, NL, LetUnderscore,
             StdFsRemove, NL>>),
     <<PlainStmt, NL>>}

PlatPaths == {PlatFiles[i] : i \in 1..Len(PlatFiles)}

PlatFs(tx, cm, ro) ==
    [p \in PlatPaths |-> IF p = TransactionTestsPath THEN tx
                         ELSE IF p = CommitMarkerTestsPath THEN cm ELSE ro]

InitPlat ==
    /\ prog = "plat"
    /\ \/ /\ \E tx \in RichTxFiles :
               fs = PlatFs(tx, CHOOSE cm \in CmFiles : cm[1] = UseAnchor[1],
                           CHOOSE ro \in RoFiles : ro[1] = UseAnchor[1])
          /\ unreadable = {}
          /\ unwritable = {}
       \/ /\ \E tx \in PlainTxFiles, cm \in CmFiles, ro \in RoFiles : fs = PlatFs(tx, cm, ro)
          /\ unreadable \in {{}, {TransactionTestsPath}, {CommitMarkerTestsPath}}
          /\ unwritable \in {{}, {CommitMarkerTestsPath}, {BackupPath(ReadOnlyTestPath)}}
    /\ pc = "p_main"
    /\ InitLocals

----------------------------------------------------------------------------
(* Actions of the plat program *)

\* leaving one of the three routines: it returns True
PlatReturn ==
    /\ pc' = "p_main"
    /\ fi' = fi + 1
    /\ total_refactored' = total_refactored + 1
    /\ content' = <<>>
    /\ k' = 0
    /\ test_body' = <<>>
    /\ new_body' = <<>>
    /\ new_function' = <<>>

\* refactor_transaction_tests up to its loop
P_TxOpen ==
    /\ UNCHANGED identVars
    /\ prog = "plat" /\ pc = "p_main" /\ fi = 1
    /\ IF TransactionTestsPath \notin DOMAIN fs \/ TransactionTestsPath \in unreadable
       THEN Crash
       ELSE /\ content' = TransactionPrepare(fs[TransactionTestsPath])
            /\ k' = 1
            /\ pc' = "p_tx_loop"
            /\ UNCHANGED <<prog, fs, unreadable, unwritable, run, fi, new_content,
                           matches, modified, total_refactored, test_body, new_body,
                           new_function, fs0, fsAtRunStart>>

\* one iteration of: for test_name in test_functions
P_TxStep ==
    /\ UNCHANGED identVars
    /\ prog = "plat" /\ pc = "p_tx_loop" /\ k <= Len(test_functions)
    /\ LET test_name == test_functions[k]
           found == TransactionMatches(content, test_name)
       IN IF found = <<>>
          THEN UNCHANGED <<content, test_body, new_body, new_function>>
          ELSE /\ test_body' = found[1].body
               /\ new_body' = convert_storage_engine_to_database(found[1].body, test_name)
               /\ new_function' =
                    WrapTest(test_name,
                             convert_storage_engine_to_database(found[1].body, test_name))
               /\ content' = ConvertTest(content, test_name)
    /\ k' = k + 1
    /\ pc' = IF k = Len(test_functions) THEN "p_backup" ELSE "p_tx_loop"
    /\ UNCHANGED <<prog, fs, unreadable, unwritable, run, fi, new_content, matches,
                   modified, total_refactored, fs0, fsAtRunStart>>

\* refactor_commit_marker_tests up to its backup
P_CmOpen ==
    /\ UNCHANGED identVars
    /\ prog = "plat" /\ pc = "p_main" /\ fi = 2
    /\ IF CommitMarkerTestsPath \notin DOMAIN fs \/ CommitMarkerTestsPath \in unreadable
       THEN Crash
       ELSE /\ content' = CommitMarkerContent(fs[CommitMarkerTestsPath])
            /\ pc' = "p_backup"
            /\ UNCHANGED <<prog, fs, unreadable, unwritable, run, fi, new_content,
                           matches, k, modified, total_refactored, test_body, new_body,
                           new_function, fs0, fsAtRunStart>>

\* refactor_read_only_transaction_test up to its backup
P_RoOpen ==
    /\ UNCHANGED identVars
    /\ prog = "plat" /\ pc = "p_main" /\ fi = 3
    /\ IF ReadOnlyTestPath \notin DOMAIN fs \/ ReadOnlyTestPath \in unreadable
       THEN Crash
       ELSE /\ content' = ReadOnlyContent(fs[ReadOnlyTestPath])
            /\ pc' = "p_backup"
            /\ UNCHANGED <<prog, fs, unreadable, unwritable, run, fi, new_content,
                           matches, k, modified, total_refactored, test_body, new_body,
                           new_function, fs0, fsAtRunStart>>

\* shutil.copy2(path, backup_path), in each of the three routines
P_Backup ==
    /\ UNCHANGED identVars
    /\ prog = "plat" /\ pc = "p_backup"
    /\ IF BackupPath(PlatFiles[fi]) \in unwritable
       THEN Crash
       ELSE /\ fs' = CopyFile(fs, PlatFiles[fi], BackupPath(PlatFiles[fi]))
            /\ pc' = "p_write"
            /\ UNCHANGED <<prog, unreadable, unwritable, run, fi, content, new_content,
                           matches, k, modified, total_refactored, test_body, new_body,
                           new_function, fs0, fsAtRunStart>>

\* with open(path, 'w') as f: f.write(content); return True
P_Write ==
    /\ UNCHANGED identVars
    /\ prog = "plat" /\ pc = "p_write"
    /\ IF PlatFiles[fi] \in unwritable
       THEN Crash
       ELSE /\ fs' = WriteFile(fs, PlatFiles[fi], content)
            /\ PlatReturn
            /\ UNCHANGED <<prog, unreadable, unwritable, run, new_content, matches,
                           modified, fs0, fsAtRunStart>>

\* main has called the three routines
P_Done ==
    /\ UNCHANGED identVars
    /\ prog = "plat" /\ pc = "p_main" /\ fi > Len(PlatFiles)
    /\ pc' = "done"
    /\ UNCHANGED <<prog, fs, unreadable, unwritable, run, fi, content, new_content,
                   matches, k, modified, total_refactored, test_body, new_body,
                   new_function, fs0, fsAtRunStart>>

----------------------------------------------------------------------------
(* scan_test_files of identify_platform_specific_tests.py *)

MaxIdentLines == 2

\* lines with the file operations scan_test_files looks for, next to
\* FsRemove and StdFsRemove
TempfileLine == "let dir = " \o "tempfile::" \o "tempdir()?;"
PathBufFromLine == "let p = " \o "PathBuf::from" \o "(name);"

\* 'StorageEngine::new' in content
has_storage_engine(text) ==
    \E i \in 1..Len(text) : ContainsStorageEngineNew(text[i])

\* any(op in content for op in ['fs::remove_file', 'tempfile::', 'PathBuf::from'])
FileOpTokens == {FsRemove, StdFsRemove, TempfileLine, PathBufFromLine}
has_file_ops(text) ==
    \E i \in 1..Len(text) : text[i] \in FileOpTokens

\* 'run_with_both_backends' in content
has_run_with_both_backends(text) ==
    \E i \in 1..Len(text) : text[i] = UseRwb \/ ContainsRwbCall(text[i])

\* 'Database::open' in content
has_database_api(text) ==
    \E i \in 1..Len(text) :
        text[i] = DbOpenLine \/ \E prefix \in LetPrefixes : text[i] = LetOpen(prefix)

\* a categorisation that counts a file without any signal as platform-specific
CategoryWithoutDefault(text) ==
    IF has_run_with_both_backends(text) \/ has_database_api(text)
    THEN IF has_storage_engine(text) \/ has_file_ops(text)
         THEN "mixed" ELSE "backend_agnostic"
    ELSE "platform_specific"

\* the list scan_test_files appends a file with this text to
Category(text) ==
    IF has_storage_engine(text) \/ has_file_ops(text)
    THEN IF has_run_with_both_backends(text) \/ has_database_api(text)
         THEN "mixed"
         ELSE "platform_specific"
    ELSE IF has_run_with_both_backends(text) \/ has_database_api(text)
         THEN "backend_agnostic"
         ELSE "backend_agnostic"

\* glob.glob('tests/*.rs'): every file of the directory, exempt names too
EngineTestsPath == "tests/engine_tests.rs"
ident_files == <<WasmFileA, WasmFileB, EngineTestsPath>>
IdentPaths == {WasmFileA, WasmFileB, EngineTestsPath}

\* the lines of the scanned files: each signal, signals of both kinds, none
IdentLines ==
    {<<tok>> : tok \in
        {LetMutEngineNew, LetStorageNew, FsRemove, StdFsRemove, TempfileLine,
         PathBufFromLine, UseRwb, RwbCall("test_insert"), DbOpenLine,
         LetOpen("let engine = "), DbStmt, PlainStmt, UsePathBuf, FsMetadataLen}}

IdentTexts ==
    {Fn("test_insert", BodyOfLines(ls)) : ls \in SeqsUpTo(IdentLines, MaxIdentLines)}

IdentMixedText == Fn("test_select", <<NL, LetEngineNew, NL, DbOpenLine, NL>>)
IdentLowText == Fn("test_select", <<NL, LetEngineNew, NL, EngineSet, NL>>)

InitIdent ==
    /\ prog = "ident"
    /\ \E a \in IdentTexts, same \in BOOLEAN :
          fs = [p \in IdentPaths |->
                  IF p = WasmFileA THEN a
                  ELSE IF p = WasmFileB THEN (IF same THEN a ELSE IdentMixedText)
                  ELSE IdentLowText]
    /\ unreadable \in {{}, {WasmFileB}}
    /\ unwritable = {}
    /\ pc = "i_scan"
    /\ InitLocals

\* one turn of the loop of scan_test_files: read the file, append its path
\* to the list of its category
I_Scan ==
    /\ prog = "ident" /\ pc = "i_scan" /\ fi <= Len(ident_files)
    /\ LET test_file == ident_files[fi]
       IN IF test_file \in unreadable
          THEN Crash /\ UNCHANGED identVars
          ELSE /\ content' = fs[test_file]
               /\ platform_specific' =
                     IF Category(fs[test_file]) = "platform_specific"
                     THEN Append(platform_specific, test_file) ELSE platform_specific
               /\ backend_agnostic' =
                     IF Category(fs[test_file]) = "backend_agnostic"
                     THEN Append(backend_agnostic, test_file) ELSE backend_agnostic
               /\ mixed' =
                     IF Category(fs[test_file]) = "mixed"
                     THEN Append(mixed, test_file) ELSE mixed
               /\ fi' = fi + 1
               /\ UNCHANGED <<prog, fs, unreadable, unwritable, pc, run, new_content,
                              matches, k, modified, total_refactored, test_body,
                              new_body, new_function, fs0, fsAtRunStart>>

\* return platform_specific, backend_agnostic, mixed
I_Done ==
    /\ prog = "ident" /\ pc = "i_scan" /\ fi > Len(ident_files)
    /\ pc' = "done"
    /\ UNCHANGED <<prog, fs, unreadable, unwritable, run, fi, content, new_content,
                   matches, k, modified, total_refactored, test_body, new_body,
                   new_function, fs0, fsAtRunStart>>
    /\ UNCHANGED identVars

\* the operator starts the script again; after a failed run the operator has
\* first removed what made it fail
Rerun ==
    /\ pc \in {"done", "crashed"} /\ run < MaxRuns
    /\ run' = run + 1
    /\ pc' = IF prog = "wasm" THEN "w_main"
             ELSE IF prog = "plat" THEN "p_main" ELSE "i_scan"
    /\ platform_specific' = <<>>
    /\ backend_agnostic' = <<>>
    /\ mixed' = <<>>
    /\ unreadable' = {}
    /\ unwritable' = {}
    /\ fi' = 1
    /\ content' = <<>>
    /\ new_content' = <<>>
    /\ matches' = <<>>
    /\ k' = 0
    /\ modified' = FALSE
    /\ total_refactored' = 0
    /\ test_body' = <<>>
    /\ new_body' = <<>>
    /\ new_function' = <<>>
    /\ fsAtRunStart' = fs
    /\ UNCHANGED <<prog, fs, fs0>>

----------------------------------------------------------------------------
(* Reference definitions the claims are stated with *)

\* The closing brace that matches the opening brace at position i, counting
\* only braces outside string literals (between two double quotes) and
\* comments (from // to the end of the line); 0 when there is none.
RECURSIVE LexicalScan(_, _, _, _)
LexicalScan(text, i, depth, mode) ==
    IF i > Len(text) THEN 0
    ELSE IF mode = "string"
         THEN LexicalScan(text, i + 1, depth, IF text[i] = QT THEN "code" ELSE "string")
    ELSE IF mode = "comment"
         THEN LexicalScan(text, i + 1, depth, IF text[i] = NL THEN "code" ELSE "comment")
    ELSE IF text[i] = QT THEN LexicalScan(text, i + 1, depth, "string")
    ELSE IF text[i] = CM THEN LexicalScan(text, i + 1, depth, "comment")
    ELSE IF text[i] = LB THEN LexicalScan(text, i + 1, depth + 1, "code")
    ELSE IF text[i] = RB
         THEN IF depth - 1 = 0 THEN i ELSE LexicalScan(text, i + 1, depth - 1, "code")
    ELSE LexicalScan(text, i + 1, depth, "code")

MatchingBrace(text, brace_start) == LexicalScan(text, brace_start, 0, "code")

\* The positions from i to stop that lie outside string literals and comments.
RECURSIVE CodePositions(_, _, _, _)
CodePositions(text, i, stop, mode) ==
    IF i > stop THEN {}
    ELSE IF mode = "string"
         THEN CodePositions(text, i + 1, stop, IF text[i] = QT THEN "code" ELSE "string")
    ELSE IF mode = "comment"
         THEN CodePositions(text, i + 1, stop, IF text[i] = NL THEN "code" ELSE "comment")
    ELSE IF text[i] = QT THEN CodePositions(text, i + 1, stop, "string")
    ELSE IF text[i] = CM THEN CodePositions(text, i + 1, stop, "comment")
    ELSE {i} \cup CodePositions(text, i + 1, stop, "code")

\* The function of match m holds a harness invocation between its opening
\* brace and the matching closing brace.
HarnessCallInFunction(text, m) ==
    LET e == MatchingBrace(text, m.brace)
    IN /\ e # 0
       /\ \E i \in CodePositions(text, m.brace + 1, e - 1, "code") :
              ContainsRwbCall(text[i])

----------------------------------------------------------------------------
(* Claims *)

\* C1: in refactor_test_file a matched function that holds an invocation of
\* run_with_both_backends( anywhere between its opening brace and the matching
\* closing brace is skipped: the loop iteration that handles it leaves the
\* working text, and the modified flag, as they were.
C1_AlreadyConvertedIsSkipped ==
    [][(prog = "wasm" /\ pc = "w_loop" /\ k >= 1
        /\ HarnessCallInFunction(content, matches[k]))
       => (new_content' = new_content /\ modified' = modified)]_vars

\* C5: the body extracted for a test function whose braces are well formed
\* runs from its opening brace to the matching closing brace (braces inside
\* literals not counted), and the span replaced ends at that same brace.
C5_BodyEndsAtMatchingBrace ==
    (prog = "wasm" /\ pc = "w_loop") =>
        \A j \in 1..Len(matches) :
            LET m == matches[j]
                e == MatchingBrace(content, m.brace)
            IN e # 0 =>
                /\ m.body = SubSeq(content, m.brace + 1, e - 1)
                /\ WillRefactor(m) => BraceEnd(content, m.brace) = e

\* C6: for a function whose brace scan reaches the end of the file before
\* the depth is back to zero, no edit is attempted: the loop iteration that
\* handles it leaves the working text unchanged.
C6_UnterminatedIsNotEdited ==
    [][(prog = "wasm" /\ pc = "w_loop" /\ k >= 1
        /\ ScanBraces(content, matches[k].brace, 0) = 0)
       => new_content' = new_content]_vars

\* C7: the spans replaced within one file are pairwise disjoint, and when a
\* span is replaced the working text still equals the original text up to
\* the end of that span, so the offsets computed on the original are valid.
C7_SpansDisjointOffsetsValid ==
    (prog = "wasm" /\ pc = "w_loop") =>
        /\ \A i, j \in 1..Len(matches) :
              (i < j /\ WillRefactor(matches[i]) /\ WillRefactor(matches[j]))
              => BraceEnd(content, matches[i].brace) < matches[j].brace
        /\ (k >= 1 /\ WillRefactor(matches[k])) =>
              LET brace_end == BraceEnd(content, matches[k].brace)
              IN Take(new_content, brace_end) = Take(content, brace_end)


\* the files the scripts rewrite, and how many of them the running script is to process
SourcePaths == WasmPaths \cup PlatPaths
NumFiles ==
    IF prog = "wasm" THEN Len(test_files)
    ELSE IF prog = "plat" THEN Len(PlatFiles) ELSE Len(ident_files)

\* C2: an already transformed function is never transformed again: when a
\* second run of the plat program ends, every file the first run had
\* committed is as the first run left it.
C2_SecondRunChangesNothing ==
    (prog = "plat" /\ run >= 2 /\ pc = "done") =>
        \A p \in PlatPaths :
            BackupPath(p) \in DOMAIN fsAtRunStart => fs[p] = fsAtRunStart[p]

\* C3: when a backup of a path exists, a commit fails: no step overwrites the
\* backup and no step writes the original.
C3_ExistingBackupBlocksCommit ==
    [][\A p \in SourcePaths :
          BackupPath(p) \in DOMAIN fs =>
              /\ fs'[BackupPath(p)] = fs[BackupPath(p)]
              /\ fs'[p] = fs[p]]_vars

\* C4: whenever a step overwrites a file, the backup was made before that
\* step and holds, before and after it, the content the file had just before.
C4_BackupBeforeWrite ==
    [][\A p \in SourcePaths :
          (p \in DOMAIN fs /\ fs'[p] # fs[p]) =>
              /\ BackupPath(p) \in DOMAIN fs
              /\ fs[BackupPath(p)] = fs[p]
              /\ fs'[BackupPath(p)] = fs[p]]_vars

\* C4 witness: a commit has happened: a file differs from what it was when
\* the run started, and its backup holds what it was.
C4_Witness ==
    \E p \in SourcePaths :
        /\ BackupPath(p) \in DOMAIN fs
        /\ fs[p] # fsAtRunStart[p]
        /\ fs[BackupPath(p)] = fsAtRunStart[p]

\* the lexemes that perform a low-level get, set or delete
LowLevelCallTokens ==
    EngineSetTokens \cup EngineGetTokens \cup EngineDeleteTokens
    \cup TxSetTokens \cup TxGetTokens \cup TxDeleteTokens

IsPlaceholderLine(line) == line # <<>> /\ line[1] \in TodoLines
IsLowLevelCallLine(line) ==
    LineHas(line, LowLevelCallTokens) /\ ~ LineHas(line, SkipLineTokens)

RECURSIVE CountPlaceholders(_)
CountPlaceholders(lines) ==
    IF lines = <<>> THEN 0
    ELSE (IF IsPlaceholderLine(Head(lines)) THEN 1 ELSE 0) + CountPlaceholders(Tail(lines))

RECURSIVE CountLowLevelCalls(_)
CountLowLevelCalls(lines) ==
    IF lines = <<>> THEN 0
    ELSE (IF IsLowLevelCallLine(Head(lines)) THEN 1 ELSE 0) + CountLowLevelCalls(Tail(lines))

\* C8: convert_storage_engine_to_database puts a placeholder comment line in
\* the place of every line that performs a low-level get, set or delete: the
\* converted body has one placeholder more than the body for each such line.
C8_LowLevelCallsGetPlaceholder ==
    (prog = "plat" /\ pc \in {"p_tx_loop", "p_backup"}) =>
        CountPlaceholders(SplitLines(new_body))
            = CountPlaceholders(SplitLines(test_body))
              + CountLowLevelCalls(SplitLines(test_body))

\* C9: a function rewritten by refactor_transaction_tests is wrapped in one
\* harness call, keyed with the function's own name, and holds no low-level
\* handle construction.
C9_WrappedOnceWithoutHandle ==
    (prog = "plat" /\ new_function # <<>>) =>
        /\ Cardinality({i \in 1..Len(new_function) : ContainsRwbCall(new_function[i])}) = 1
        /\ \A i \in 1..Len(new_function) :
              /\ ContainsRwbCall(new_function[i])
                    => new_function[i] = RwbCall(HeaderName(new_function[1]))
              /\ ~ ContainsStorageEngineNew(new_function[i])

\* C10: a failure on one file does not halt the batch: when the script has
\* ended, every file of the run has been taken up.
C10_BatchSurvivesFailure ==
    pc \in {"done", "crashed"} => fi > NumFiles


\* how many times a path stands in a list
Occurrences(list, path) == Cardinality({i \in 1..Len(list) : list[i] = path})

\* the list a scanned file has been put into, "" when it is in none
ListOf(path) ==
    IF Occurrences(mixed, path) > 0 THEN "mixed"
    ELSE IF Occurrences(platform_specific, path) > 0 THEN "platform_specific"
    ELSE IF Occurrences(backend_agnostic, path) > 0 THEN "backend_agnostic"
    ELSE ""

\* the two halves of the decision table
LowLevelSignal(text) == has_storage_engine(text) \/ has_file_ops(text)
HighLevelSignal(text) == has_run_with_both_backends(text) \/ has_database_api(text)

\* C11: every file scan_test_files has scanned stands in exactly one of the
\* three lists, once, and in the list the decision table gives for its text:
\* low and high signal mixed, low signal alone platform_specific, no low
\* signal backend_agnostic; two files with the same text stand in the same list.
C11_OneCategoryByDecisionTable ==
    prog = "ident" =>
        /\ \A i \in 1..(fi - 1) :
              LET path == ident_files[i]
                  text == fs[path]
              IN /\ Occurrences(platform_specific, path)
                       + Occurrences(backend_agnostic, path)
                       + Occurrences(mixed, path) = 1
                 /\ (LowLevelSignal(text) /\ HighLevelSignal(text))
                       => ListOf(path) = "mixed"
                 /\ (LowLevelSignal(text) /\ ~ HighLevelSignal(text))
                       => ListOf(path) = "platform_specific"
                 /\ ~ LowLevelSignal(text) => ListOf(path) = "backend_agnostic"
        /\ \A i, j \in 1..(fi - 1) :
              fs[ident_files[i]] = fs[ident_files[j]]
                 => ListOf(ident_files[i]) = ListOf(ident_files[j])

\* C11 witness: a scan has ended with a file in each list, one of the
\* backend_agnostic files holding none of the four signals
C11_Witness ==
    /\ prog = "ident" /\ pc = "done"
    /\ Len(mixed) > 0 /\ Len(platform_specific) > 0
    /\ \E i \in 1..Len(backend_agnostic) :
          /\ ~ LowLevelSignal(fs[backend_agnostic[i]])
          /\ ~ HighLevelSignal(fs[backend_agnostic[i]])

\* a is b with some elements left out
RECURSIVE IsSubsequence(_, _)
IsSubsequence(a, b) ==
    IF a = <<>> THEN TRUE
    ELSE IF b = <<>> THEN FALSE
    ELSE IF Head(a) = Head(b) THEN IsSubsequence(Tail(a), Tail(b))
    ELSE IsSubsequence(a, Tail(b))

\* the lines of a body: what stands between the opening brace and the first
\* newline, and between the last newline and the closing brace, is a line
\* only when it is not empty
BodyLines(body) ==
    LET lines == SplitLines(body)
        n == Len(lines)
        from == IF n >= 1 /\ lines[1] = <<>> THEN 2 ELSE 1
        to == IF n >= 1 /\ lines[n] = <<>> THEN n - 1 ELSE n
    IN IF from > to THEN <<>> ELSE SubSeq(lines, from, to)

\* the lexemes a rule of convert_storage_engine_to_database matches
RuleTokens ==
    SkipLineTokens \cup LowLevelCallTokens \cup BeginTransactionTokens
    \cup TxCommitTokens \cup TxRollbackTokens

RECURSIVE UnmatchedLines(_)
UnmatchedLines(lines) ==
    IF lines = <<>> THEN <<>>
    ELSE (IF LineHas(Head(lines), RuleTokens) THEN <<>> ELSE <<Head(lines)>>)
         \o UnmatchedLines(Tail(lines))

\* the body of the match, from its opening brace to the matching closing brace
FullBody(text, m) ==
    SubSeq(text, m.brace + 1, MatchingBrace(text, m.brace) - 1)

\* C12: the lines of a rewritten body that match no rule are lines of the
\* output, unchanged and in their order: for refactor_test_function every
\* line of the body, blank lines, comment lines and lines after an inner
\* closing brace included; for convert_storage_engine_to_database every line
\* none of its rules matches.
C12_UnmatchedLinesPassThrough ==
    [][/\ (prog = "wasm" /\ pc = "w_loop" /\ k >= 1 /\ new_content' # new_content
           /\ MatchingBrace(content, matches[k].brace) > 0)
          => IsSubsequence(BodyLines(FullBody(content, matches[k])),
                           SplitLines(new_content'))
       /\ (prog = "plat" /\ pc = "p_tx_loop")
          => IsSubsequence(UnmatchedLines(BodyLines(test_body')),
                           SplitLines(new_body'))]_vars

\* the three reasons for which refactor_test_file skips a matched function
SkippedMatch(m) ==
    \/ m.name \in PLATFORM_SPECIFIC_TESTS
    \/ \E i \in 1..Len(m.body) : ContainsRwbCall(m.body[i])
    \/ ~ \E i \in 1..Len(m.body) : ContainsDbKeyword(m.body[i])

\* nothing to wrap: every line of the body is blank or a comment
NoTestLogic(m) ==
    \A i \in 1..Len(SplitLines(m.body)) : ~ IsTestLogicLine(SplitLines(m.body)[i])

\* no function of the text is transformed: none is matched, or each match is
\* skipped or has nothing to wrap
NothingTransformed(text) ==
    \A i \in 1..Len(WasmTestMatches(text)) :
        SkippedMatch(WasmTestMatches(text)[i]) \/ NoTestLogic(WasmTestMatches(text)[i])

\* C13: while refactor_test_file works on a file none of whose functions is
\* transformed, no step changes the file system (no write, no backup), the
\* working text stays the text read (no import line), no step reaches the
\* commit, and the count of refactored files stays (the call returns False).
C13_WritesOnlyWhenTransformed ==
    [][(/\ prog = "wasm" /\ pc \in {"w_main", "w_loop", "w_backup", "w_write"}
        /\ fi <= Len(test_files)
        /\ test_files[fi] \in DOMAIN fs
        /\ NothingTransformed(fs[test_files[fi]]))
       => /\ fs' = fs
          /\ total_refactored' = total_refactored
          /\ pc' \notin {"w_backup", "w_write"}
          /\ pc' = "w_loop" => (new_content' = content' /\ ~ modified')]_vars

\* C13 witness: refactor_test_file has returned False for a first file that
\* has matched functions, all of them skipped: the file is as it was, it
\* has no backup, and nothing was counted
C13_Witness ==
    /\ prog = "wasm" /\ run = 1 /\ pc = "w_main" /\ fi = 2
    /\ WasmTestMatches(fs[WasmFileA]) # <<>>
    /\ \A i \in 1..Len(WasmTestMatches(fs[WasmFileA])) :
          SkippedMatch(WasmTestMatches(fs[WasmFileA])[i])
    /\ fs = fs0
    /\ BackupPath(WasmFileA) \notin DOMAIN fs
    /\ total_refactored = 0

Init == InitWasm \/ InitPlat \/ InitIdent

Next ==
    \/ W_Open
    \/ W_LoopStep
    \/ W_Import
    \/ W_Backup
    \/ W_Write
    \/ W_Done
    \/ P_TxOpen
    \/ P_TxStep
    \/ P_CmOpen
    \/ P_RoOpen
    \/ P_Backup
    \/ P_Write
    \/ P_Done
    \/ I_Scan
    \/ I_Done
    \/ Rerun

Spec == Init /\ [][Next]_vars

====
